---- MODULE Spec2Model ----
(***************************************************************************)
(* Model of src/bot.py: the TTL cache (cache_get / cache_set), the two     *)
(* JSON fetchers (api_get / toa_get) on top of the shared requests session *)
(* with its urllib3 Retry adapter, and the asyncio event loop on which the *)
(* command handlers call them.                                             *)
(*                                                                         *)
(* Python values are written as strings: None is "None", a JSON array []   *)
(* is "[]", and so on.  The clock `now` stands for time.time().            *)
(***************************************************************************)
EXTENDS Integers, Sequences, FiniteSets, TLC

(* ------------------------------ bounds -------------------------------- *)

\* Number of command handler invocations that may be in flight together.
NumHandlers == 2
\* No new command is invoked, and the idle clock does not advance, past this.
MaxTime == 3

(* ------------------------- program constants -------------------------- *)

\* Retry(total=5)
RetryTotal == 5
\* 'wait = ... if ra else 5' and 'except Exception: wait = 5'
DefaultWait == 5
\* 'ttl: int = 60'
DefaultTTL == 60

API_BASE == "https://api.ftcscout.org/rest/v1"
TOA_API_BASE == "https://theorangealliance.org/api"
\* Retry(status_forcelist=(429, 500, 502, 503, 504))
status_forcelist == {429, 500, 502, 503, 504}

None == "None"

(* ------------------------------ inputs -------------------------------- *)

Handlers == 1..NumHandlers
Functions == {"api_get", "toa_get"}
Paths == {"/teams/1"}
\* params: None, or a dict given by its items in insertion order
NoParams == [none |-> TRUE, items |-> <<>>]
ParamChoices == {NoParams}
\* ttl arguments handed to api_get / toa_get
TTLs == {1, DefaultTTL}
\* ttl arguments handed to cache_set when it is exercised on its own
CacheTTLs == {-1, 0, 1, 2}
\* os.getenv("TOA_KEY"): unset, set to the empty string, or set
TOA_KEY_Choices == {None, "", "secret"}
\* response bodies of a 200
Bodies == {"null", "[]", "{\"name\": \"A\"}", "<html>"}
\* values cache_set is exercised with on its own
CacheValues == {None, "[]", "{'name': 'A'}"}
\* Retry-After header as resp.headers.get returns it: None when missing
RetryAfterHeaders == {None, "", "0", "2", "2.5", "-1", "abc", "inf"}
\* status codes a server may answer with
Statuses == {200, 404, 429, 500}

(* --------------------------- Python helpers --------------------------- *)

\* bool(x) for the values that occur: None and "" are falsy
Truthy(x) == x # None /\ x # ""

\* resp.json(): the decoded value, or "raise" when the body is not JSON
json(body) ==
    CASE body = "null" -> [ok |-> TRUE, value |-> None]
      [] body = "[]" -> [ok |-> TRUE, value |-> "[]"]
      [] body = "{\"name\": \"A\"}" -> [ok |-> TRUE, value |-> "{'name': 'A'}"]
      [] OTHER -> [ok |-> FALSE, value |-> None]

\* float(ra) in tenths, or ok = FALSE where float() raises ValueError;
\* inf is kept apart because int(inf) raises OverflowError
float(ra) ==
    CASE ra = "0" -> [ok |-> TRUE, inf |-> FALSE, tenths |-> 0]
      [] ra = "2" -> [ok |-> TRUE, inf |-> FALSE, tenths |-> 20]
      [] ra = "2.5" -> [ok |-> TRUE, inf |-> FALSE, tenths |-> 25]
      [] ra = "-1" -> [ok |-> TRUE, inf |-> FALSE, tenths |-> -10]
      [] ra = "inf" -> [ok |-> TRUE, inf |-> TRUE, tenths |-> 0]
      [] OTHER -> [ok |-> FALSE, inf |-> FALSE, tenths |-> 0]

\* int(x) of a float given in tenths: truncation toward zero
int(tenths) == IF tenths >= 0 THEN tenths \div 10 ELSE -((-tenths) \div 10)

\* wait = int(float(ra)) if ra else 5, with 'except Exception: wait = 5'
ParseWait(ra) ==
    IF ~Truthy(ra) THEN DefaultWait
    ELSE LET f == float(ra)
         IN IF f.ok /\ ~f.inf THEN int(f.tenths) ELSE DefaultWait

\* str(params) of the f-string: 'None', or the dict's items in insertion
\* order as {'k': v, 'k': v}
RECURSIVE ItemsStr(_)
ItemsStr(items) ==
    IF items = <<>> THEN ""
    ELSE "'" \o items[1][1] \o "': " \o items[1][2]
         \o (IF Len(items) > 1 THEN ", " ELSE "") \o ItemsStr(Tail(items))
ParamsStr(params) ==
    IF params.none THEN "None" ELSE "{" \o ItemsStr(params.items) \o "}"

\* key = f"api:{url}:{params}" / f"toa:{url}:{params}"
ApiKey(path, params) == "api:" \o API_BASE \o path \o ":" \o ParamsStr(params)
ToaKey(path, params) == "toa:" \o TOA_API_BASE \o path \o ":" \o ParamsStr(params)
KeyOf(f, path, params) ==
    IF f = "api_get" THEN ApiKey(path, params) ELSE ToaKey(path, params)

Keys == {KeyOf(f, p, q) : f \in Functions, p \in Paths, q \in ParamChoices}

(* ------------------------------- state -------------------------------- *)

VARIABLES
    CACHE,      \* dict: key -> [expiry, value]
    now,        \* time.time()
    TOA_KEY,    \* module constant read from the environment at import
    loop,       \* handler running on the asyncio event loop, 0 when it is free
    pc,         \* per handler: where its coroutine stands
    call,       \* per handler: the arguments of its api_get / toa_get call
    resp,       \* per handler: the response SESSION.get returned last
    retries,    \* per handler: retries left in the transport's Retry object
    wait,       \* per handler: the parsed Retry-After
    result,     \* per handler: the (data, error) pair returned
    obs,        \* per handler: what the call did so far (observation only)
    lastOp,     \* the last direct cache operation (observation only)
    lastSet,    \* per key: the last direct cache_set (observation only)
    soup,       \* the document handed to parse_quick_stats_from_soup
    frame,      \* that call: its position, its locals, its return value
    last,       \* per document: what its first call returned (observation only)
    elem,       \* the element handed to parse_table / parse_div_grid on its own
    out,        \* what that call, and the embed built from it, came to
    team        \* the team handler once its api_get has returned

vars == <<CACHE, now, TOA_KEY, loop, pc, call, resp, retries, wait, result,
          obs, lastOp, lastSet, soup, frame, last, elem, out, team>>

parseVars == <<soup, frame, last, elem, out>>

fetchVars == <<TOA_KEY, loop, pc, call, resp, retries, wait, result, obs>>
cacheObs == <<lastOp, lastSet>>

(* ----------------------------- TTL cache ------------------------------ *)

\* 'if time.time() > expiry'
Expired_AtExpiry(t, expiry) == t >= expiry
Expired(t, expiry) == t > expiry

\* cache_get: the value returned.  An entry is a tuple, so 'if not entry'
\* is taken only when the key is missing.
cache_get_value(C, k, t) ==
    IF k \notin DOMAIN C THEN None
    ELSE IF Expired(t, C[k].expiry) THEN None
    ELSE C[k].value

\* cache_get: the dict afterwards (CACHE.pop(key, None) on an expired entry)
cache_get_cache(C, k, t) ==
    IF k \in DOMAIN C /\ Expired(t, C[k].expiry)
    THEN [x \in DOMAIN C \ {k} |-> C[x]]
    ELSE C

\* cache_set: CACHE[key] = (time.time() + ttl, value)
cache_set_Alone(C, k, v, ttl, t) ==
    [x \in {k} |-> [expiry |-> t + ttl, value |-> v]]
cache_set(C, k, v, ttl, t) ==
    [x \in DOMAIN C \cup {k} |->
        IF x = k THEN [expiry |-> t + ttl, value |-> v] ELSE C[x]]

NoOp == [op |-> "none", key |-> None, t |-> 0, ret |-> None,
         had |-> FALSE, afterSet |-> FALSE]

\* a direct call cache_set(k, v, ttl)
CacheSetOp(k, v, ttl) ==
    /\ CACHE' = cache_set(CACHE, k, v, ttl, now)
    /\ lastOp' = [op |-> "set", key |-> k, t |-> now, ret |-> None,
                  had |-> k \in DOMAIN CACHE, afterSet |-> FALSE]
    /\ lastSet' = [x \in DOMAIN lastSet \cup {k} |->
                     IF x = k THEN [t |-> now, ttl |-> ttl, value |-> v]
                     ELSE lastSet[x]]
    /\ UNCHANGED <<now, fetchVars, parseVars, team>>

\* a direct call cache_get(k)
CacheGetOp(k) ==
    /\ CACHE' = cache_get_cache(CACHE, k, now)
    /\ lastOp' = [op |-> "get", key |-> k, t |-> now,
                  ret |-> cache_get_value(CACHE, k, now),
                  had |-> k \in DOMAIN CACHE,
                  afterSet |-> lastOp.op = "set" /\ lastOp.key = k]
    /\ UNCHANGED <<now, lastSet, fetchVars, parseVars, team>>

(* ------------------------- fetcher: helpers --------------------------- *)

NoCall == [fn |-> None, path |-> None, params |-> NoParams, ttl |-> 0,
           key |-> None]
NoResp == [status |-> 0, ra |-> None, body |-> None]
NoResult == [data |-> None, error |-> None]
\* gets: SESSION.get calls; attempts: network attempts; reads / writes:
\* cache_get / cache_set calls; purged: cache_get popped an entry; slept:
\* seconds slept; first: status of the first response; fresh: the key had an
\* entry that had not expired when the call began
NoObs == [gets |-> 0, attempts |-> 0, reads |-> 0, writes |-> 0,
          purged |-> FALSE, slept |-> 0, first |-> 0, fresh |-> FALSE]

\* what one network attempt can be answered with
Responses ==
    {[status |-> 200, ra |-> None, body |-> b] : b \in Bodies}
    \cup {[status |-> 429, ra |-> a, body |-> "<html>"] : a \in RetryAfterHeaders}
    \cup {[status |-> s, ra |-> None, body |-> "<html>"] : s \in Statuses \ {200, 429}}

\* 'if not TOA_KEY' (api_get has no such test)
KeyMissing_Ignored(f, toaKey) == FALSE
KeyMissing(f, toaKey) == f = "toa_get" /\ ~Truthy(toaKey)

\* 'if resp.status_code == 429'
RateLimited_AnyFailure(status) == status # 200
RateLimited(status) == status = 429

\* the response is cached: status 200 and resp.json() did not raise
Stores_Always(r) == TRUE
Stores(r) == r.status = 200 /\ json(r.body).ok

\* urllib3 Retry: a failed attempt is repeated while the budget lasts
Exhausted_OneMore(left) == left < 0
Exhausted(left) == left <= 0

\* the error texts (the exception's own text is left out)
ErrPrefix(f) == IF f = "api_get" THEN "" ELSE "TOA "
ErrRequest(f, where) ==
    IF f = "api_get"
    THEN (IF where = "get1" THEN "Request failed" ELSE "Request failed after retry")
    ELSE (IF where = "get1" THEN "TOA request failed"
          ELSE "TOA request failed after retry")
ErrHttp(f, status) == ErrPrefix(f) \o "HTTP " \o ToString(status)
ErrJson(f) == IF f = "api_get" THEN "Invalid JSON" ELSE "TOA invalid JSON"
ErrConfig == "TOA key not configured"

\* the tail of api_get / toa_get once the last response is in hand
FinalResult(f, r) ==
    IF r.status # 200 THEN [data |-> None, error |-> ErrHttp(f, r.status)]
    ELSE IF ~json(r.body).ok THEN [data |-> None, error |-> ErrJson(f)]
    ELSE [data |-> json(r.body).value, error |-> None]

\* the team handler: where it stands after its api_get, the SESSION.get
\* calls it made for the team page, what that fetch came to ("none", "200",
\* "other", "failed"), whether 'except Exception' caught something, and the
\* replies sent through ctx.send
NoTeam == [pc |-> "idle", gets |-> 0, html |-> "none", caught |-> FALSE,
           replies |-> <<>>]

(* ------------------------- fetcher: actions --------------------------- *)

\* SESSION.get is taken at its interface: a call makes network attempts under
\* the Retry budget and ends either in a requests.RequestException or in a
\* response, whose status, Retry-After and body the server chooses.

\* a command arrives: its handler is scheduled on the event loop
Invoke(h, f, p, q, ttl) ==
    /\ pc[h] = "idle"
    /\ now < MaxTime
    /\ pc' = [pc EXCEPT ![h] = "ready"]
    /\ call' = [call EXCEPT ![h] = [fn |-> f, path |-> p, params |-> q,
                                    ttl |-> ttl, key |-> KeyOf(f, p, q)]]
    /\ UNCHANGED <<CACHE, now, TOA_KEY, loop, resp, retries, wait, result, obs, cacheObs, parseVars, team>>

\* the event loop takes up a handler only when the handler it runs has come
\* to an await; api_get and toa_get are plain functions without one
Runnable_Always(l) == TRUE
Runnable(l) == l = 0

\* the loop runs the handler up to its call of api_get / toa_get, and the
\* call up to its first SESSION.get: the key check, the key, the cache lookup
Begin(h) ==
    /\ Runnable(loop)
    /\ pc[h] = "ready"
    /\ loop' = h
    /\ LET c == call[h]
           o == [NoObs EXCEPT !.fresh = /\ c.key \in DOMAIN CACHE
                                        /\ now <= CACHE[c.key].expiry]
           l == [o EXCEPT !.reads = 1,
                          !.purged = (CACHE' # CACHE)]
           v == cache_get_value(CACHE, c.key, now)
       IN IF KeyMissing(c.fn, TOA_KEY)
          THEN /\ result' = [result EXCEPT ![h] = [data |-> None, error |-> ErrConfig]]
               /\ pc' = [pc EXCEPT ![h] = "returned"]
               /\ obs' = [obs EXCEPT ![h] = o]
               /\ UNCHANGED <<CACHE, retries>>
          ELSE /\ CACHE' = cache_get_cache(CACHE, c.key, now)
               /\ IF v # None
                  THEN /\ result' = [result EXCEPT ![h] = [data |-> v, error |-> None]]
                       /\ pc' = [pc EXCEPT ![h] = "returned"]
                       /\ obs' = [obs EXCEPT ![h] = l]
                       /\ UNCHANGED retries
                  ELSE /\ pc' = [pc EXCEPT ![h] = "get1"]
                       /\ retries' = [retries EXCEPT ![h] = RetryTotal]
                       /\ obs' = [obs EXCEPT ![h] = [l EXCEPT !.gets = 1]]
                       /\ UNCHANGED result
    /\ UNCHANGED <<now, TOA_KEY, call, resp, wait, cacheObs, parseVars, team>>

InGet(h) == loop = h /\ pc[h] \in {"get1", "get2"}

\* one network attempt fails in a way the Retry object repeats (a connection
\* error, or a status of status_forcelist) and budget is left
TransportRetry(h) ==
    /\ InGet(h)
    /\ ~Exhausted(retries[h])
    /\ retries' = [retries EXCEPT ![h] = @ - 1]
    /\ obs' = [obs EXCEPT ![h].attempts = @ + 1]
    /\ UNCHANGED <<CACHE, now, TOA_KEY, loop, pc, call, resp, wait, result, cacheObs, parseVars, team>>

\* one network attempt ends SESSION.get in a requests.RequestException (a
\* failure that is not repeated, or one met with the budget used up)
TransportRaise(h) ==
    /\ InGet(h)
    /\ result' = [result EXCEPT ![h] =
                     [data |-> None, error |-> ErrRequest(call[h].fn, pc[h])]]
    /\ pc' = [pc EXCEPT ![h] = "returned"]
    /\ obs' = [obs EXCEPT ![h].attempts = @ + 1]
    /\ UNCHANGED <<CACHE, now, TOA_KEY, loop, call, resp, retries, wait, cacheObs, parseVars, team>>

\* one network attempt is answered and SESSION.get returns the response: a
\* status outside status_forcelist, or any status once the budget is used up.
\* The Retry-After of the second response is never read and is left out.
TransportReturn(h, r) ==
    /\ InGet(h)
    /\ pc[h] = "get2" => r.ra = None
    /\ r.status \notin status_forcelist \/ Exhausted(retries[h])
    /\ resp' = [resp EXCEPT ![h] = r]
    /\ IF pc[h] = "get1" /\ RateLimited(r.status)
       THEN /\ wait' = [wait EXCEPT ![h] = ParseWait(r.ra)]
            /\ pc' = [pc EXCEPT ![h] = "sleep"]
       ELSE /\ pc' = [pc EXCEPT ![h] = "final"]
            /\ UNCHANGED wait
    /\ obs' = [obs EXCEPT ![h].attempts = @ + 1,
                          ![h].first = IF pc[h] = "get1" THEN r.status ELSE @]
    /\ UNCHANGED <<CACHE, now, TOA_KEY, loop, call, retries, result, cacheObs, parseVars, team>>

\* time.sleep(wait), then the second SESSION.get is entered; time.sleep
\* raises ValueError on a negative argument and nothing catches it
Sleep(h) ==
    /\ loop = h
    /\ pc[h] = "sleep"
    /\ IF wait[h] < 0
       THEN /\ pc' = [pc EXCEPT ![h] = "raised"]
            /\ loop' = 0
            /\ UNCHANGED <<now, retries, obs>>
       ELSE /\ now' = now + wait[h]
            /\ pc' = [pc EXCEPT ![h] = "get2"]
            /\ retries' = [retries EXCEPT ![h] = RetryTotal]
            /\ obs' = [obs EXCEPT ![h].slept = @ + wait[h],
                                  ![h].gets = @ + 1]
            /\ UNCHANGED loop
    /\ UNCHANGED <<CACHE, TOA_KEY, call, resp, wait, result, cacheObs, parseVars, team>>

\* the status test, resp.json(), cache_set and the return
Final(h) ==
    /\ loop = h
    /\ pc[h] = "final"
    /\ LET c == call[h]
           r == resp[h]
       IN /\ result' = [result EXCEPT ![h] = FinalResult(c.fn, r)]
          /\ IF Stores(r)
             THEN /\ CACHE' = cache_set(CACHE, c.key, json(r.body).value, c.ttl, now)
                  /\ obs' = [obs EXCEPT ![h].writes = @ + 1]
             ELSE UNCHANGED <<CACHE, obs>>
    /\ pc' = [pc EXCEPT ![h] = "returned"]
    /\ UNCHANGED <<now, TOA_KEY, loop, call, resp, retries, wait, cacheObs, parseVars, team>>

\* the handler reaches 'await ctx.send(...)': the loop is free again and the
\* handler ends
Send(h) ==
    /\ loop = h
    /\ pc[h] = "returned"
    /\ loop' = 0
    /\ pc' = [pc EXCEPT ![h] = "idle"]
    /\ call' = [call EXCEPT ![h] = NoCall]
    /\ resp' = [resp EXCEPT ![h] = NoResp]
    /\ retries' = [retries EXCEPT ![h] = 0]
    /\ wait' = [wait EXCEPT ![h] = 0]
    /\ result' = [result EXCEPT ![h] = NoResult]
    /\ obs' = [obs EXCEPT ![h] = NoObs]
    /\ UNCHANGED <<CACHE, now, TOA_KEY, cacheObs, parseVars>>
    /\ team' = NoTeam

\* the framework has logged the exception of a handler that raised
Reap(h) ==
    /\ pc[h] = "raised"
    /\ pc' = [pc EXCEPT ![h] = "idle"]
    /\ call' = [call EXCEPT ![h] = NoCall]
    /\ resp' = [resp EXCEPT ![h] = NoResp]
    /\ retries' = [retries EXCEPT ![h] = 0]
    /\ wait' = [wait EXCEPT ![h] = 0]
    /\ result' = [result EXCEPT ![h] = NoResult]
    /\ obs' = [obs EXCEPT ![h] = NoObs]
    /\ UNCHANGED <<CACHE, now, TOA_KEY, loop, cacheObs, parseVars>>
    /\ team' = NoTeam

\* time passes, whatever runs
Elapse ==
    /\ now < MaxTime
    /\ now' = now + 1
    /\ UNCHANGED <<CACHE, fetchVars, cacheObs, parseVars, team>>

(* ------------------------------ str, bs4 ------------------------------ *)

\* A str is the sequence of its characters; "" is <<>>.
Upper == <<"A", "B", "C", "D", "E", "F", "G", "H", "I", "J", "K", "L", "M",
           "N", "O", "P", "Q", "R", "S", "T", "U", "V", "W", "X", "Y", "Z">>
Lower == <<"a", "b", "c", "d", "e", "f", "g", "h", "i", "j", "k", "l", "m",
           "n", "o", "p", "q", "r", "s", "t", "u", "v", "w", "x", "y", "z">>

\* s.lower()
lower(s) ==
    [i \in 1..Len(s) |->
        IF \E n \in 1..Len(Upper) : Upper[n] = s[i]
        THEN Lower[CHOOSE n \in 1..Len(Upper) : Upper[n] = s[i]]
        ELSE s[i]]

\* 'x in s' on two str
In(x, s) ==
    \E i \in 0..(Len(s) - Len(x)) : \A j \in 1..Len(x) : s[i + j] = x[j]

\* the first of a set of indices, 0 for None
First(hits) == IF hits = {} THEN 0 ELSE CHOOSE i \in hits : \A j \in hits : i <= j
\* the last of a set of indices that is not empty
Last(hits) == CHOOSE i \in hits : \A j \in hits : i >= j

\* s.strip(): from the first to the last character that is not a blank
strip(s) ==
    LET inked == {i \in 1..Len(s) : s[i] # " "}
    IN IF inked = {} THEN <<>> ELSE SubSeq(s, First(inked), Last(inked))

\* sep.join(list)
RECURSIVE join(_, _)
join(sep, list) ==
    IF list = <<>> THEN <<>>
    ELSE IF Len(list) = 1 THEN list[1]
    ELSE list[1] \o sep \o join(sep, Tail(list))

\* the lists of a list, one after the other
RECURSIVE chain(_)
chain(lists) == IF lists = <<>> THEN <<>> ELSE lists[1] \o chain(Tail(lists))

\* the words the code looks for
table == <<"t", "a", "b", "l", "e">>
header == <<"h", "e", "a", "d", "e", "r">>
row_label == <<"r", "o", "w", "-", "l", "a", "b", "e", "l">>
val == <<"v", "a", "l">>
best == <<"b", "e", "s", "t">>
opr == <<"o", "p", "r">>
rank == <<"r", "a", "n", "k">>
percentile == <<"p", "e", "r", "c", "e", "n", "t", "i", "l", "e">>
label == <<"l", "a", "b", "e", "l">>
\* ("best", "opr", "rank", "percentile")
RowKeywords == {best, opr, rank, percentile}

\* A bs4 Tag: its name, its class attribute (the list of its tokens), the
\* string it holds before its first child, and its child tags in document
\* order.  The BeautifulSoup object is the tag named [document].
Tag(name, class, text, kids) ==
    [name |-> name, class |-> class, text |-> text, kids |-> kids]

\* tag.find_all(): every tag below it, in document order
RECURSIVE descendants(_)
descendants(e) ==
    chain([i \in 1..Len(e.kids) |-> <<e.kids[i]>> \o descendants(e.kids[i])])

\* tag.find_all(names)
find_all(e, names) == SelectSeq(descendants(e), LAMBDA t : t.name \in names)

\* the strings below a tag, in document order
RECURSIVE strings(_)
strings(e) == <<e.text>> \o chain([i \in 1..Len(e.kids) |-> strings(e.kids[i])])

\* tag.get_text(sep, strip=True): the strings stripped, the empty ones
\* dropped, the rest joined by sep
Stripped(list) == [i \in 1..Len(list) |-> strip(list[i])]
get_text(e, sep) == join(sep, SelectSeq(Stripped(strings(e)), LAMBDA x : x # <<>>))

\* [c.get_text(sep, strip=True) for c in tags]
Texts(tags, sep) == [i \in 1..Len(tags) |-> get_text(tags[i], sep)]

\* any(word in cls for cls in classes)
HasToken(e, word) == \E i \in 1..Len(e.class) : In(word, e.class[i])

\* A dict as the list of its items in insertion order; d[k] = v keeps the
\* place of a key the dict holds already.
dict_set(d, k, v) ==
    IF \E i \in 1..Len(d) : d[i].key = k
    THEN [i \in 1..Len(d) |-> IF d[i].key = k THEN [key |-> k, value |-> v] ELSE d[i]]
    ELSE Append(d, [key |-> k, value |-> v])

\* what the two parsers return: None, or {"categories": ..., "rows": ...}
Absent == [none |-> TRUE, categories |-> <<>>, rows |-> <<>>]
Parsed(categories, rows) == [none |-> FALSE, categories |-> categories, rows |-> rows]

(* ----------------------------- parse_table ---------------------------- *)

\* 'len(headers) > 1 and (headers[0].strip() == "" or any(x.lower() in
\* headers[0].lower() for x in ("best", "rank", "label")))'
FirstIsPlaceholder_Never(headers) == FALSE
FirstIsPlaceholder(headers) ==
    /\ Len(headers) > 1
    /\ \/ strip(headers[1]) = <<>>
       \/ \E x \in {best, rank, label} : In(lower(x), lower(headers[1]))

\* one turn of the loop over t.find_all("tr"), on the texts of the cells
\* of the tr: 'if not cells: continue', 'if len(texts) == 1: continue',
\* 'rows_local[label] = vals'
AddRow(rows_local, texts) ==
    IF texts = <<>> \/ Len(texts) = 1 THEN rows_local
    ELSE dict_set(rows_local, texts[1], Tail(texts))

\* the loop, from the dict built so far
RECURSIVE TableRows(_, _)
TableRows(trs, rows_local) ==
    IF trs = <<>> THEN rows_local
    ELSE TableRows(Tail(trs),
                   AddRow(rows_local, Texts(find_all(trs[1], {"td", "th"}), <<" ">>)))

\* [th.get_text(strip=True) for th in t.find_all("th")]
Headers(t) == Texts(find_all(t, {"th"}), <<>>)

\* the categories: the headers, without the first when it is a placeholder;
\* without th, the cells of the first tr but the first
CategoriesOf(headers, trs) ==
    IF headers # <<>>
    THEN (IF FirstIsPlaceholder(headers) THEN Tail(headers) ELSE headers)
    ELSE IF trs # <<>> /\ Len(find_all(trs[1], {"td", "th"})) > 1
    THEN Texts(Tail(find_all(trs[1], {"td", "th"})), <<>>)
    ELSE <<>>

\* parse_table never returns None: a table without a row of two cells gives
\* a dict whose "rows" is empty
parse_table(t) ==
    Parsed(CategoriesOf(Headers(t), find_all(t, {"tr"})),
           TableRows(find_all(t, {"tr"}), <<>>))

(* --------------------------- parse_div_grid --------------------------- *)

\* 'for c in children[:10]'
GuessLen == 10

\* direct child divs, or every descendant div when there is none
ChildrenOr(direct, container) ==
    IF direct # <<>> THEN direct ELSE find_all(container, {"div"})
GridChildren(container) ==
    ChildrenOr(SelectSeq(container.kids, LAMBDA c : c.name = "div"), container)

\* the texts of the children with a 'header' token, or of the first ten
HeadersOr(tagged, children) ==
    IF tagged # <<>> THEN Texts(tagged, <<" ">>)
    ELSE Texts(SubSeq(children, 1, IF Len(children) < GuessLen THEN Len(children)
                                   ELSE GuessLen), <<" ">>)
GridHeaders(children) ==
    HeadersOr(SelectSeq(children, LAMBDA c : HasToken(c, header)), children)

\* 'categories = headers[1:] if len(headers) > 1 else headers'
GridCategories_Rest(headers) == IF headers = <<>> THEN headers ELSE Tail(headers)
GridCategories(headers) == IF Len(headers) > 1 THEN Tail(headers) ELSE headers

\* the inner while loop: from child j on, the index the row ends before and
\* the values collected
RECURSIVE CollectVals(_, _, _)
CollectVals(children, j, vals) ==
    IF j > Len(children) THEN [j |-> j, vals |-> vals]
    ELSE IF HasToken(children[j], row_label) THEN [j |-> j, vals |-> vals]
    ELSE IF HasToken(children[j], val)
    THEN CollectVals(children, j + 1, Append(vals, get_text(children[j], <<" ">>)))
    ELSE CollectVals(children, j + 1, vals)

\* the row that a row-label child at index i opens: where it ends and the
\* values collected (the variant takes every 'val' child up to the end)
RowAt_ToEnd(children, i) ==
    [j |-> CollectVals(children, i + 1, <<>>).j,
     vals |-> Texts(SelectSeq(SubSeq(children, i + 1, Len(children)),
                              LAMBDA c : HasToken(c, val)), <<" ">>)]
RowAt(children, i) == CollectVals(children, i + 1, <<>>)

\* the outer while loop, from child i on (children are numbered from 1)
RECURSIVE ScanRows(_, _, _)
\* 'rows_local[label] = vals' and 'i = j'
OpenRow(children, i, rows_local, r) ==
    ScanRows(children, r.j, dict_set(rows_local, get_text(children[i], <<" ">>), r.vals))
ScanRows(children, i, rows_local) ==
    IF i > Len(children) THEN rows_local
    ELSE IF HasToken(children[i], row_label)
    THEN OpenRow(children, i, rows_local, RowAt(children, i))
    ELSE ScanRows(children, i + 1, rows_local)

\* 'for idx in range(0, len(tail), col_count + 1)'
RECURSIVE ChunkRows(_, _, _)
ChunkRows(tail, col_count, rows_local) ==
    IF tail = <<>> THEN rows_local
    ELSE LET n == IF Len(tail) < col_count + 1 THEN Len(tail) ELSE col_count + 1
         IN ChunkRows(SubSeq(tail, n + 1, Len(tail)), col_count,
                      dict_set(rows_local, tail[1], SubSeq(tail, 2, n)))

\* the rows chunked from the 'text_children' after the header texts
Chunked(text_children, headers) ==
    ChunkRows(SubSeq(text_children, Len(headers) + 1, Len(text_children)),
              IF Len(GridCategories(headers)) > 1 THEN Len(GridCategories(headers)) ELSE 1,
              <<>>)

\* f"Col {i+1}" for the one-digit numbers
Digits == <<"1", "2", "3", "4", "5", "6", "7", "8", "9">>
ColNames(maxlen) == [i \in 1..maxlen |-> <<"C", "o", "l", " ", Digits[i]>>]
\* 'max((len(v) for v in rows_local.values()), default=0)'
MaxLen(rows_local) ==
    LET lens == {Len(rows_local[i].value) : i \in 1..Len(rows_local)}
    IN IF lens = {} THEN 0 ELSE Last(lens)

\* the end of parse_div_grid
GridResult(categories, rows_local) ==
    IF rows_local = <<>> THEN Absent
    ELSE IF categories = <<>> THEN Parsed(ColNames(MaxLen(rows_local)), rows_local)
    ELSE Parsed(categories, rows_local)

\* 'if not rows_local and headers': the chunking takes the place of the scan
GridWith(children, headers, scanned) ==
    GridResult(GridCategories(headers),
               IF scanned = <<>> /\ headers # <<>>
               THEN Chunked(Texts(SelectSeq(children, LAMBDA c : get_text(c, <<>>) # <<>>),
                                  <<" ">>), headers)
               ELSE scanned)

GridFrom(children) ==
    GridWith(children, GridHeaders(children), ScanRows(children, 1, <<>>))

parse_div_grid(container) == GridFrom(GridChildren(container))

(* --------------------- parse_quick_stats_from_soup -------------------- *)

\* the lambda of soup.find(...): where the heading is looked for
IsHeading(t) ==
    /\ t.name \in {"h1", "h2", "h3", "h4", "h5", "div", "span"}
    /\ get_text(t, <<>>) # <<>>
    /\ In(<<"q", "u", "i", "c", "k", " ", "s", "t", "a", "t", "s">>,
          lower(get_text(t, <<>>)))

\* a div whose class list has a token containing 'table'
IsGridDiv(t) == t.name = "div" /\ t.class # <<>> /\ HasToken(t, table)

\* 'keys_joined = " ".join(k.lower() for k in parsed.get("rows", {}).keys())'
\* and 'any(k in keys_joined for k in ("best", "opr", "rank", "percentile"))'
HasKeywordRows(parsed) ==
    \E k \in RowKeywords :
        In(k, join(<<" ">>, [i \in 1..Len(parsed.rows) |-> lower(parsed.rows[i].key)]))

\* Stage 1, the grid after the heading: returned with keyword rows, and
\* 'return parsed anyway' without
GridAccepted_KeywordOnly(parsed) == HasKeywordRows(parsed)
GridAccepted(parsed) == HasKeywordRows(parsed) \/ TRUE

\* Stage 1, the table after the heading: returned with keyword rows only
TableAccepted_Any(parsed) == TRUE
TableAccepted(parsed) == HasKeywordRows(parsed)

\* 'div_candidates = []', 'table_candidates = []': a list made anew by the
\* call, whatever an earlier call left
NewList_Kept(old) == old
NewList(old) == <<>>

\* what Stage 1 comes to: whether it returns, what, and through which branch
NotReturned == [returns |-> FALSE, value |-> Absent, by |-> "none"]
ReturnedBy(branch, parsed) == [returns |-> TRUE, value |-> parsed, by |-> branch]

\* the parse of the div found after the heading, None without such a div
GridAfter(all, div_grid) ==
    IF div_grid = 0 THEN Absent ELSE parse_div_grid(all[div_grid])
\* the parse of the table found after the heading, when there is one
TableAfter(all, t) ==
    IF t = 0 THEN [found |-> FALSE, parsed |-> Absent]
    ELSE [found |-> TRUE, parsed |-> parse_table(all[t])]

\* 'if parsed: ... return parsed', then the table
StageOneResult(grid, following) ==
    IF ~grid.none /\ GridAccepted(grid) THEN ReturnedBy("grid", grid)
    ELSE IF following.found /\ TableAccepted(following.parsed)
    THEN ReturnedBy("table", following.parsed)
    ELSE NotReturned

\* 'if heading:', with heading.find_next(...) for the div and for the table
AfterHeading(all, heading) ==
    IF heading = 0 THEN NotReturned
    ELSE StageOneResult(
             GridAfter(all, First({i \in (heading + 1)..Len(all) : IsGridDiv(all[i])})),
             TableAfter(all, First({i \in (heading + 1)..Len(all) : all[i].name = "table"})))

\* Stage 1 on the tags of the page in document order
StageOneOf(all) == AfterHeading(all, First({i \in 1..Len(all) : IsHeading(all[i])}))
StageOne(doc) == StageOneOf(descendants(doc))

\* Stage 2: the grids that parse, in the order of soup.find_all("div")
GridResults(divs) == [i \in 1..Len(divs) |-> parse_div_grid(divs[i])]
DivCandidates(doc, div_candidates) ==
    div_candidates
    \o SelectSeq(GridResults(SelectSeq(descendants(doc),
                                       LAMBDA t : t.name = "div" /\ HasToken(t, table))),
                 LAMBDA x : ~x.none)

\* the candidate Stage 2 returns: the first with keyword rows, else the first
PickDiv_First(div_candidates) == div_candidates[1]
PickDivAt(div_candidates, i) ==
    IF i # 0 THEN div_candidates[i] ELSE div_candidates[1]
PickDiv(div_candidates) ==
    PickDivAt(div_candidates,
              First({n \in 1..Len(div_candidates) : HasKeywordRows(div_candidates[n])}))

\* 'any(k in joined for k in ("total np", "best opr", "rank / percentile"))'
HeaderMatches(t) ==
    \E k \in {<<"t", "o", "t", "a", "l", " ", "n", "p">>,
               <<"b", "e", "s", "t", " ", "o", "p", "r">>,
               <<"r", "a", "n", "k", " ", "/", " ", "p", "e", "r", "c", "e", "n", "t",
                 "i", "l", "e">>} :
        In(k, lower(join(<<" ">>, Headers(t))))

\* 'if t not in table_candidates: table_candidates.append(t)' over a list of
\* tables ('in' compares tags by name, attributes and contents)
RECURSIVE AddNew(_, _)
AddNew(table_candidates, tables) ==
    IF tables = <<>> THEN table_candidates
    ELSE IF \E i \in 1..Len(table_candidates) : table_candidates[i] = tables[1]
    THEN AddNew(table_candidates, Tail(tables))
    ELSE AddNew(Append(table_candidates, tables[1]), Tail(tables))

\* Stage 3: the tables whose headers match, then the remaining ones
TableCandidates_DocOrder(doc, table_candidates) ==
    AddNew(table_candidates, find_all(doc, {"table"}))
CandidatesOf(tables, table_candidates) ==
    AddNew(AddNew(table_candidates, SelectSeq(tables, HeaderMatches)), tables)
TableCandidates(doc, table_candidates) ==
    CandidatesOf(find_all(doc, {"table"}), table_candidates)

\* the result of Stage 3 from its candidate list
PickTableAt(table_candidates, i) ==
    IF i # 0 THEN parse_table(table_candidates[i])
    ELSE IF table_candidates # <<>> THEN parse_table(table_candidates[1])
    ELSE Absent
PickTable(table_candidates) ==
    PickTableAt(table_candidates,
                First({n \in 1..Len(table_candidates) :
                         HasKeywordRows(parse_table(table_candidates[n]))}))

NoFrame == [pc |-> "idle", div_candidates |-> <<>>, table_candidates |-> <<>>,
            ret |-> Absent, by |-> "none"]

\* the team handler calls parse_quick_stats_from_soup(soup)
Call(doc) ==
    /\ frame.pc = "idle"
    /\ soup' = doc
    /\ frame' = [frame EXCEPT !.pc = "one", !.ret = Absent, !.by = "none"]
    /\ UNCHANGED <<CACHE, now, fetchVars, cacheObs, team, last, elem, out>>

\* '# 1) Try to find a heading containing "Quick Stats" ...'
StageA ==
    /\ frame.pc = "one"
    /\ \E a \in {StageOne(soup)} :
          frame' = IF a.returns
                   THEN [frame EXCEPT !.pc = "done", !.ret = a.value, !.by = a.by]
                   ELSE [frame EXCEPT !.pc = "two"]
    /\ UNCHANGED <<CACHE, now, fetchVars, cacheObs, team, soup, last, elem, out>>

\* '# 2) Scan for any div-based grids site-wide and pick best candidate'
StageB ==
    /\ frame.pc = "two"
    /\ \E div_candidates \in {DivCandidates(soup, NewList(frame.div_candidates))} :
          frame' = IF div_candidates # <<>>
                   THEN [frame EXCEPT !.pc = "done", !.div_candidates = div_candidates,
                                      !.ret = PickDiv(div_candidates), !.by = "divs"]
                   ELSE [frame EXCEPT !.pc = "three", !.div_candidates = div_candidates]
    /\ UNCHANGED <<CACHE, now, fetchVars, cacheObs, team, soup, last, elem, out>>

\* '# 3) Classic <table> scanning (original logic)'
StageC ==
    /\ frame.pc = "three"
    /\ \E table_candidates \in {TableCandidates(soup, NewList(frame.table_candidates))} :
          frame' = [frame EXCEPT !.pc = "done", !.table_candidates = table_candidates,
                                 !.ret = PickTable(table_candidates), !.by = "tables"]
    /\ UNCHANGED <<CACHE, now, fetchVars, cacheObs, team, soup, last, elem, out>>

\* the call returns; its locals are garbage from here on
Return ==
    /\ frame.pc = "done"
    /\ last' = IF soup \in DOMAIN last THEN last
               ELSE [d \in DOMAIN last \cup {soup} |->
                       IF d = soup THEN frame.ret ELSE last[d]]
    /\ frame' = [frame EXCEPT !.pc = "idle"]
    /\ UNCHANGED <<CACHE, now, fetchVars, cacheObs, team, soup, elem, out>>

(* -------------------- the embed of the team handler ------------------- *)

\* find_row(keys): the index of the first row whose label holds a key, 0
\* for None
find_row(rows, keys) ==
    First({n \in 1..Len(rows) : \E x \in keys : In(x, lower(rows[n].key))})

\* 'vals[i] if i < len(vals)', "" otherwise or without the row (i from 1)
ValueAt(rows, row, i) ==
    IF row # 0 /\ i <= Len(rows[row].value) THEN rows[row].value[i] ELSE <<>>

\* 'if best_label and best_val', 'if rank_label and rank_val': an empty str
\* is no value
Shown_Always(row, v) == row # 0
Shown(row, v) == row # 0 /\ v # <<>>

BestPrefix == <<"B", "e", "s", "t", " ", "O", "P", "R", ":", " ">>
RankPrefix == <<"R", "a", "n", "k", " ", "/", " ", "P", "e", "r", "c", "e", "n", "t", "i", "l", "e", ":", " ">>

\* 'field_lines.append(f"...: {v}")' under its test
Line(prefix, row, v) == IF Shown(row, v) THEN <<prefix \o v>> ELSE <<>>

\* the lines of the field of category i
LinesFor(rows, best_label, rank_label, i) ==
    Line(BestPrefix, best_label, ValueAt(rows, best_label, i))
    \o Line(RankPrefix, rank_label, ValueAt(rows, rank_label, i))
FieldLines(rows, i) ==
    LinesFor(rows, find_row(rows, {best, opr}), find_row(rows, {rank, percentile}), i)

\* the fields added per category: one for each category with a line ('at'
\* records the position of the category)
FieldsFor(parsed, filled) ==
    [n \in 1..Len(filled) |->
        [name |-> parsed.categories[filled[n]],
         value |-> join(<<"\n">>, FieldLines(parsed.rows, filled[n])),
         inline |-> TRUE, at |-> filled[n]]]
CategoryFields(parsed) ==
    FieldsFor(parsed, SelectSeq([i \in 1..Len(parsed.categories) |-> i],
                                LAMBDA i : FieldLines(parsed.rows, i) # <<>>))

\* 'if not added_any': every row as a field of 'category: value' parts
RowFields(parsed) ==
    [n \in 1..Len(parsed.rows) |->
       [name |-> parsed.rows[n].key,
        value |-> join(<<" ", "|", " ">>,
                       [i \in 1..Len(parsed.categories) |->
                          parsed.categories[i] \o <<":", " ">>
                          \o ValueAt(parsed.rows, n, i)]),
        inline |-> FALSE, at |-> 0]]

FieldsOr(fields, parsed) == IF fields # <<>> THEN fields ELSE RowFields(parsed)
EmbedFields(parsed) == FieldsOr(CategoryFields(parsed), parsed)

NoElem == Tag("", <<>>, <<>>, <<>>)
NoOut == [pc |-> "idle", parsed |-> Absent, fields |-> <<>>]

\* parse_table(elem) on its own
ParseTable ==
    /\ out.pc = "idle"
    /\ elem.name = "table"
    /\ out' = [out EXCEPT !.pc = "parsed", !.parsed = parse_table(elem)]
    /\ UNCHANGED <<CACHE, now, fetchVars, cacheObs, team, soup, frame, last, elem>>

\* parse_div_grid(elem) on its own
ParseGrid ==
    /\ out.pc = "idle"
    /\ elem.name = "div"
    /\ out' = [out EXCEPT !.pc = "parsed", !.parsed = parse_div_grid(elem)]
    /\ UNCHANGED <<CACHE, now, fetchVars, cacheObs, team, soup, frame, last, elem>>

\* 'if parsed:' and the embed built from it
BuildEmbed ==
    /\ out.pc = "parsed"
    /\ ~out.parsed.none
    /\ out' = [out EXCEPT !.pc = "embed", !.fields = EmbedFields(out.parsed)]
    /\ UNCHANGED <<CACHE, now, fetchVars, cacheObs, team, soup, frame, last, elem>>

(* --------------------------- the team handler ------------------------- *)

\* 'data.get(...)': only a dict has the method; on None or a list the
\* attribute lookup raises AttributeError
IsObject(data) == data = "{'name': 'A'}"

\* a reply sent through ctx.send
Reply(kind, fields) == [kind |-> kind, fields |-> fields]

\* 'data, err = api_get(path)', 'if err: await ctx.send(...); return', and
\* the lines built from data; nothing catches what data.get raises
TeamStart(h) ==
    /\ loop = h
    /\ pc[h] = "returned"
    /\ team.pc = "idle"
    /\ IF Truthy(result[h].error)
       THEN /\ team' = [team EXCEPT !.pc = "ended",
                                    !.replies = Append(@, Reply("error", <<>>))]
            /\ UNCHANGED <<pc, loop>>
       ELSE IF ~IsObject(result[h].data)
       THEN /\ team' = [team EXCEPT !.pc = "raised"]
            /\ pc' = [pc EXCEPT ![h] = "raised"]
            /\ loop' = 0
       ELSE /\ team' = [team EXCEPT !.pc = "fetch"]
            /\ UNCHANGED <<pc, loop>>
    /\ UNCHANGED <<CACHE, now, TOA_KEY, call, resp, retries, wait, result, obs,
                   cacheObs, parseVars>>

\* 'html_resp = SESSION.get(html_url, timeout=10)' returns r: on 200 the
\* page goes to BeautifulSoup, otherwise a line is added to the text (the
\* variant keeps the page in CACHE and asks the network only without it)
TeamFetch_Cached(h, r) ==
    /\ loop = h
    /\ team.pc = "fetch"
    /\ team' = [team EXCEPT !.pc = IF r.status = 200 THEN "parse" ELSE "fallback",
                            !.gets = IF "html" \in DOMAIN CACHE THEN @ ELSE @ + 1,
                            !.html = IF r.status = 200 THEN "200" ELSE "other"]
    /\ soup' = r.doc
    /\ CACHE' = cache_set(CACHE, "html", "<html>", DefaultTTL, now)
    /\ UNCHANGED <<now, fetchVars, cacheObs, frame, last, elem, out>>
TeamFetch(h, r) ==
    /\ loop = h
    /\ team.pc = "fetch"
    /\ IF r.status = 200
       THEN /\ team' = [team EXCEPT !.pc = "parse", !.gets = @ + 1, !.html = "200"]
            /\ soup' = r.doc
       ELSE /\ team' = [team EXCEPT !.pc = "fallback", !.gets = @ + 1,
                                    !.html = "other"]
            /\ UNCHANGED soup
    /\ UNCHANGED <<CACHE, now, fetchVars, cacheObs, frame, last, elem, out>>

\* the same SESSION.get ends in a requests.RequestException
TeamFetchFails(h) ==
    /\ loop = h
    /\ team.pc = "fetch"
    /\ team' = [team EXCEPT !.pc = "fallback", !.gets = @ + 1, !.html = "failed"]
    /\ UNCHANGED <<CACHE, now, fetchVars, cacheObs, parseVars>>

\* something between BeautifulSoup(...) and the embed raises: 'except
\* Exception: pass', and the handler goes on to the fallback
TeamCaught(h) ==
    /\ loop = h
    /\ team.pc = "parse"
    /\ team' = [team EXCEPT !.pc = "fallback", !.caught = TRUE]
    /\ frame' = [frame EXCEPT !.pc = "idle"]
    /\ UNCHANGED <<CACHE, now, fetchVars, cacheObs, soup, last, elem, out>>

\* 'if parsed:' with the embed built and sent, and the return; without a
\* result the handler goes on to the fallback
TeamReply(h) ==
    /\ loop = h
    /\ team.pc = "parse"
    /\ frame.pc = "done"
    /\ IF ~frame.ret.none
       THEN team' = [team EXCEPT !.pc = "ended",
                                 !.replies = Append(@, Reply("embed", EmbedFields(frame.ret)))]
       ELSE team' = [team EXCEPT !.pc = "fallback"]
    /\ frame' = [frame EXCEPT !.pc = "idle"]
    /\ UNCHANGED <<CACHE, now, fetchVars, cacheObs, soup, last, elem, out>>

\* '# Fallback: send basic text message if embed not produced'
TeamFallback(h) ==
    /\ loop = h
    /\ team.pc = "fallback"
    /\ team' = [team EXCEPT !.pc = "ended",
                            !.replies = Append(@, Reply("text", <<>>))]
    /\ UNCHANGED <<CACHE, now, fetchVars, cacheObs, parseVars>>

(* ----------------------------- documents ------------------------------ *)

\* most blocks of a document
MaxBlocks == 3
\* most body rows of a table parsed on its own
MaxRows == 2
\* most children of a grid parsed on its own
MaxKids == 4

Td(text) == Tag("td", <<>>, text, <<>>)
Th(text) == Tag("th", <<>>, text, <<>>)
\* <th>a<b>c</b></th>
ThSplit(a, c) == Tag("th", <<>>, a, <<Tag("b", <<>>, c, <<>>)>>)
Tr(cells) == Tag("tr", <<>>, <<>>, cells)
TableOf(trs) == Tag("table", <<>>, <<>>, trs)
Div(class, text) == Tag("div", class, text, <<>>)
GridOf(kids) == Tag("div", <<<<"t", "a", "b", "l", "e">>>>, <<>>, kids)
Soup(blocks) == Tag("[document]", <<>>, <<>>, blocks)

\* the header row of a table, when it has one
HeaderRowChoices ==
    { <<Th(<<>>), Th(<<"A", "u", "t", "o">>), Th(<<"T", "e", "l", "e", "o", "p">>)>>,
      <<Th(<<"R", "A", "N", "K">>), Th(<<"A", "u", "t", "o">>)>>,
      <<ThSplit(<<"B", "e">>, <<"s", "t">>), Th(<<"A", "u", "t", "o">>)>>,
      <<Th(<<"T", "e", "a", "m">>), Th(<<"A", "u", "t", "o">>)>>,
      <<Th(<<"L", "a", "b", "e", "l">>)>> }

\* the rows below it
BodyRowChoices ==
    { <<Td(<<"B", "e", "s", "t", " ", "O", "P", "R">>), Td(<<"1", "0">>), Td(<<"2", "0">>)>>,
      <<Td(<<"B", "e", "s", "t", " ", "O", "P", "R">>), Td(<<"1", "1">>)>>,
      <<Td(<<"B", "e", "s", "t", " ", "O", "P", "R">>), Td(<<>>), Td(<<"2", "0">>)>>,
      <<Td(<<"R", "a", "n", "k", " ", "/", " ", "P", "e", "r", "c", "e", "n", "t", "i", "l", "e">>), Td(<<"3">>), Td(<<>>)>>,
      <<Td(<<"W", "i", "n", "s">>), Td(<<"5">>), Td(<<"6">>)>>,
      <<Th(<<"T", "o", "t", "a", "l">>), Td(<<"7">>)>>,
      <<Td(<<"n", "/", "a">>)>>,
      <<>> }

RECURSIVE SeqsUpTo(_, _)
SeqsUpTo(S, n) ==
    IF n = 0 THEN {<<>>}
    ELSE LET shorter == SeqsUpTo(S, n - 1)
         IN shorter \cup {Append(q, x) : q \in shorter, x \in S}

Tables ==
    {TableOf([i \in 1..Len(body) |-> Tr(body[i])]) : body \in SeqsUpTo(BodyRowChoices, MaxRows)}
    \cup {TableOf(<<Tr(h)>> \o [i \in 1..Len(body) |-> Tr(body[i])]) :
            h \in HeaderRowChoices, body \in SeqsUpTo(BodyRowChoices, MaxRows)}

\* the children of a grid
GridKidChoices ==
    { Div(<<<<"h", "e", "a", "d", "e", "r">>>>, <<>>),
      Div(<<<<"t", "a", "b", "l", "e", "-", "h", "e", "a", "d", "e", "r">>>>, <<"A", "u", "t", "o">>),
      Div(<<<<"r", "o", "w", "-", "l", "a", "b", "e", "l">>>>, <<"B", "e", "s", "t", " ", "O", "P", "R">>),
      Div(<<<<"c", "e", "l", "l">>, <<"r", "o", "w", "-", "l", "a", "b", "e", "l">>>>, <<"W", "i", "n", "s">>),
      Div(<<<<"v", "a", "l">>>>, <<"1", "0">>),
      Div(<<<<"c", "e", "l", "l">>, <<"v", "a", "l", "u", "e">>>>, <<>>),
      Div(<<>>, <<"n", "o", "t", "e">>) }

Grids == {GridOf(kids) : kids \in SeqsUpTo(GridKidChoices, MaxKids)}

\* a grid of more children than the ten that the guess of the headers reads
WideGrid ==
    GridOf(<<Div(<<<<"r", "o", "w", "-", "l", "a", "b", "e", "l">>>>, <<"W", "i", "n", "s">>)>>
           \o [i \in 1..GuessLen |-> Div(<<<<"v", "a", "l">>>>, <<Lower[i]>>)])

\* the blocks of a team page
Heading == Tag("h2", <<>>, <<"Q", "u", "i", "c", "k", " ", "S", "t", "a", "t", "s">>, <<>>)
GridKeyword ==
    GridOf(<<Div(<<<<"h", "e", "a", "d", "e", "r">>>>, <<>>), Div(<<<<"h", "e", "a", "d", "e", "r">>>>, <<"A", "u", "t", "o">>),
             Div(<<<<"r", "o", "w", "-", "l", "a", "b", "e", "l">>>>, <<"B", "e", "s", "t", " ", "O", "P", "R">>), Div(<<<<"v", "a", "l">>>>, <<"1", "0">>)>>)
GridPlain ==
    GridOf(<<Div(<<<<"h", "e", "a", "d", "e", "r">>>>, <<>>), Div(<<<<"h", "e", "a", "d", "e", "r">>>>, <<"A", "u", "t", "o">>),
             Div(<<<<"r", "o", "w", "-", "l", "a", "b", "e", "l">>>>, <<"W", "i", "n", "s">>), Div(<<<<"v", "a", "l">>>>, <<"5">>)>>)
GridEmpty == GridOf(<<>>)
TableKeyword ==
    TableOf(<<Tr(<<Th(<<>>), Th(<<"A", "u", "t", "o">>)>>), Tr(<<Td(<<"B", "e", "s", "t", " ", "O", "P", "R">>), Td(<<"1", "2">>)>>)>>)
TablePlain ==
    TableOf(<<Tr(<<Th(<<"T", "e", "a", "m">>), Th(<<"A", "u", "t", "o">>)>>), Tr(<<Td(<<"L", "o", "s", "s", "e", "s">>), Td(<<"4">>)>>)>>)
TableHeaded ==
    TableOf(<<Tr(<<Th(<<"T", "o", "t", "a", "l", " ", "N", "P">>), Th(<<"A", "u", "t", "o">>)>>), Tr(<<Td(<<"T", "i", "e", "s">>), Td(<<"1">>)>>)>>)
TableRowless == TableOf(<<Tr(<<Td(<<"n", "/", "a">>)>>)>>)
Wrapped == Tag("div", <<>>, <<>>, <<GridPlain, Heading, GridKeyword>>)

BlockChoices ==
    {Heading, GridKeyword, GridPlain, GridEmpty,
     TableKeyword, TablePlain, TableHeaded, TableRowless, Wrapped}

Docs == {Soup(blocks) : blocks \in SeqsUpTo(BlockChoices, MaxBlocks)}

\* the pages fetched again and again
RepeatDocs ==
    {Soup(<<>>), Soup(<<TableKeyword>>), Soup(<<TableRowless>>), Soup(<<GridPlain>>),
     Soup(<<GridKeyword>>), Soup(<<Heading, TablePlain>>)}

\* requests whose parameters are the same pairs in another order, or differ
Season == <<"season", "2024">>
EventCode == <<"eventCode", "'USCAL'">>
KeyPaths == {"/teams/1/awards", "/teams/1/events"}
KeyParamChoices ==
    { [none |-> FALSE, items |-> <<Season, EventCode>>],
      [none |-> FALSE, items |-> <<EventCode, Season>>],
      [none |-> FALSE, items |-> <<Season>>] }
KeyResponses == {r \in Responses : r.status \in {200, 404} /\ r.body \in {"[]", "<html>"}}

\* what the server of the team pages answers with
HtmlResponses ==
    {[status |-> 200, doc |-> d] : d \in RepeatDocs}
    \cup {[status |-> s, doc |-> Soup(<<>>)] : s \in {404, 500}}
\* what the API answers a team handler with
TeamResponses == {r \in Responses : r.status \in {200, 404}}

(* --------------------------- specifications --------------------------- *)

\* nothing fetched, nothing cached
FetchIdle ==
    /\ CACHE = <<>>
    /\ now = 0
    /\ loop = 0
    /\ pc = [h \in Handlers |-> "idle"]
    /\ call = [h \in Handlers |-> NoCall]
    /\ resp = [h \in Handlers |-> NoResp]
    /\ retries = [h \in Handlers |-> 0]
    /\ wait = [h \in Handlers |-> 0]
    /\ result = [h \in Handlers |-> NoResult]
    /\ obs = [h \in Handlers |-> NoObs]
    /\ lastOp = NoOp
    /\ lastSet = <<>>

\* no page parsed
ParseIdle ==
    /\ soup = Soup(<<>>)
    /\ frame = NoFrame
    /\ last = <<>>
    /\ elem = NoElem
    /\ out = NoOut
    /\ team = NoTeam

Init ==
    /\ FetchIdle
    /\ TOA_KEY \in TOA_KEY_Choices
    /\ ParseIdle

\* api_get and toa_get never yield the loop, so calls are serialized: one
\* handler making call after call shows every behaviour of the fetchers
Caller == CHOOSE h \in Handlers : \A g \in Handlers : h <= g

Next ==
    \/ \E f \in Functions, p \in Paths, q \in ParamChoices, ttl \in TTLs :
          Invoke(Caller, f, p, q, ttl)
    \/ Begin(Caller)
    \/ TransportRetry(Caller)
    \/ TransportRaise(Caller)
    \/ \E r \in Responses : TransportReturn(Caller, r)
    \/ Sleep(Caller)
    \/ Final(Caller)
    \/ Send(Caller)
    \/ Reap(Caller)
    \/ Elapse

Spec == Init /\ [][Next]_vars

\* several command handlers scheduled on the one event loop
LoopResponses == {r \in Responses : r.ra \in {None, "2"} /\ r.body # "null"}

NextLoop ==
    \/ \E h \in Handlers, p \in Paths, q \in ParamChoices :
          Invoke(h, "api_get", p, q, DefaultTTL)
    \/ \E h \in Handlers : Begin(h)
    \/ \E h \in Handlers : TransportRetry(h)
    \/ \E h \in Handlers : TransportRaise(h)
    \/ \E h \in Handlers, r \in LoopResponses : TransportReturn(h, r)
    \/ \E h \in Handlers : Sleep(h)
    \/ \E h \in Handlers : Final(h)
    \/ \E h \in Handlers : Send(h)
    \/ Elapse

SpecLoop == Init /\ [][NextLoop]_vars

\* the cache exercised on its own
NextCache ==
    \/ \E k \in Keys, v \in CacheValues, ttl \in CacheTTLs : CacheSetOp(k, v, ttl)
    \/ \E k \in Keys : CacheGetOp(k)
    \/ Elapse

SpecCache == Init /\ [][NextCache]_vars

\* the calls of parse_quick_stats_from_soup on the pages a server may send
NextExtract ==
    \/ \E doc \in Docs : Call(doc)
    \/ StageA
    \/ StageB
    \/ StageC

InitExtract ==
    /\ FetchIdle
    /\ TOA_KEY = None
    /\ ParseIdle

SpecExtract == InitExtract /\ [][NextExtract]_vars

\* the same, call after call, with the cache in use in between
NextRepeat ==
    \/ \E doc \in RepeatDocs : Call(doc)
    \/ StageA
    \/ StageB
    \/ StageC
    \/ Return
    \/ \E k \in Keys : CacheSetOp(k, "[]", DefaultTTL)

SpecRepeat == InitExtract /\ [][NextRepeat]_vars

\* the two parsers and the embed on their own
InitParse ==
    /\ FetchIdle
    /\ TOA_KEY = None
    /\ soup = Soup(<<>>)
    /\ frame = NoFrame
    /\ last = <<>>
    /\ elem \in Tables \cup Grids \cup {WideGrid}
    /\ out = NoOut
    /\ team = NoTeam

NextParse ==
    \/ ParseTable
    \/ ParseGrid
    \/ BuildEmbed

SpecParse == InitParse /\ [][NextParse]_vars

\* api_get on requests that differ in the order of their parameters only
NextKeys ==
    \/ \E p \in KeyPaths, q \in KeyParamChoices : Invoke(Caller, "api_get", p, q, DefaultTTL)
    \/ Begin(Caller)
    \/ TransportRetry(Caller)
    \/ TransportRaise(Caller)
    \/ \E r \in KeyResponses : TransportReturn(Caller, r)
    \/ Final(Caller)
    \/ Send(Caller)

SpecKeys == Init /\ [][NextKeys]_vars

\* the team command, invocation after invocation
NextTeam ==
    \/ \E p \in Paths : Invoke(Caller, "api_get", p, NoParams, DefaultTTL)
    \/ Begin(Caller)
    \/ TransportRetry(Caller)
    \/ TransportRaise(Caller)
    \/ \E r \in TeamResponses : TransportReturn(Caller, r)
    \/ Final(Caller)
    \/ TeamStart(Caller)
    \/ \E r \in HtmlResponses : TeamFetch(Caller, r)
    \/ TeamFetchFails(Caller)
    \/ (team.pc = "parse" /\ Call(soup))
    \/ (team.pc = "parse" /\ StageA)
    \/ (team.pc = "parse" /\ StageB)
    \/ (team.pc = "parse" /\ StageC)
    \/ TeamCaught(Caller)
    \/ TeamReply(Caller)
    \/ TeamFallback(Caller)
    \/ (team.pc = "ended" /\ Send(Caller))
    \/ Reap(Caller)

SpecTeam == InitExtract /\ [][NextTeam]_vars

(* ------------------------------ the cache ----------------------------- *)

\* the direct cache_set that the last direct cache_get of key k looks back on
SetOf(k) == lastSet[k]
GotAfterSet == lastOp.op = "get" /\ lastOp.key \in DOMAIN lastSet

\* C1 as stated: cache_set(k, v, ttl) followed immediately by cache_get(k)
\* returns v, for every ttl; and a cache_get(k) once ttl has elapsed since the
\* set returns absent and leaves no entry for k.
C1_Original ==
    GotAfterSet =>
        LET k == lastOp.key
        IN /\ (lastOp.afterSet /\ lastOp.t = SetOf(k).t)
                  => lastOp.ret = SetOf(k).value
           /\ (lastOp.t - SetOf(k).t >= SetOf(k).ttl)
                  => (lastOp.ret = None /\ k \notin DOMAIN CACHE)

\* C1 (amended): after cache_set(k, v, ttl) at clock reading t0, a
\* cache_get(k) at a reading t <= t0 + ttl returns v and keeps the entry (so
\* an immediate read returns v exactly when ttl >= 0), and a cache_get(k) at
\* t > t0 + ttl returns absent and that same read leaves no entry for k.
C1_SetThenGet ==
    GotAfterSet =>
        LET k == lastOp.key
            due == SetOf(k).t + SetOf(k).ttl
        IN /\ lastOp.t <= due =>
                 /\ lastOp.ret = SetOf(k).value
                 /\ k \in DOMAIN CACHE
                 /\ CACHE[k] = [expiry |-> due, value |-> SetOf(k).value]
           /\ lastOp.t > due =>
                 /\ lastOp.ret = None
                 /\ k \notin DOMAIN CACHE

\* a cache_get found an entry set with a positive ttl, past its expiry, and
\* removed it
C1_Witness ==
    /\ GotAfterSet
    /\ lastOp.had
    /\ SetOf(lastOp.key).ttl > 0
    /\ lastOp.ret = None
    /\ lastOp.key \notin DOMAIN CACHE

(* ----------------------------- the fetchers --------------------------- *)

Returned(h) == pc[h] = "returned"
Populated(x) == x # None

\* C2 as stated: a call that ends in a 200 whose body decodes has stored the
\* decoded value under its key, whatever the value; and a call that begins
\* while that entry has not expired returns the stored value with no GET.
C2_Original ==
    \A h \in Handlers :
        Returned(h) =>
            /\ (resp[h].status = 200 /\ json(resp[h].body).ok) =>
                  /\ call[h].key \in DOMAIN CACHE
                  /\ CACHE[call[h].key].value = json(resp[h].body).value
                  /\ result[h] = [data |-> json(resp[h].body).value, error |-> None]
            /\ obs[h].fresh =>
                  /\ obs[h].gets = 0
                  /\ obs[h].attempts = 0
                  /\ result[h] = [data |-> CACHE[call[h].key].value, error |-> None]

\* C3 as stated: every (data, error) returned has exactly one of the two
\* populated.
C3_Original ==
    \A h \in Handlers :
        Returned(h) => (Populated(result[h].data) # Populated(result[h].error))

\* C4 as stated: no call of api_get or toa_get ends in an exception.
C4_Original == \A h \in Handlers : pc[h] # "raised"

\* seconds (in tenths) that a Retry-After header asks for: its number, or 5
\* when it is missing or no number
AskedTenths(ra) ==
    IF Truthy(ra) /\ float(ra).ok /\ ~float(ra).inf
    THEN float(ra).tenths ELSE 10 * DefaultWait

\* C5 as stated: after a first response of 429 exactly one further GET is
\* issued, only after a wait of at least the seconds Retry-After gives (5 when
\* missing or unparseable), and never a third.
C5_Original ==
    \A h \in Handlers :
        /\ obs[h].gets <= 2
        /\ obs[h].first = 429 =>
              /\ pc[h] # "raised"
              /\ pc[h] \in {"get2", "final", "returned"} => obs[h].gets = 2
              /\ pc[h] = "get2" => 10 * obs[h].slept >= AskedTenths(resp[h].ra)

\* C6: a call whose first response is neither 200 nor 429 returns the HTTP
\* error carrying that status, after one GET, no sleep and no cache write.
C6_HttpError ==
    \A h \in Handlers :
        (Returned(h) /\ obs[h].first \notin {0, 200, 429}) =>
            /\ result[h] = [data |-> None,
                            error |-> ErrPrefix(call[h].fn) \o "HTTP "
                                          \o ToString(obs[h].first)]
            /\ resp[h].status = obs[h].first
            /\ obs[h].gets = 1
            /\ obs[h].slept = 0
            /\ obs[h].writes = 0

\* api_get returned "HTTP 404" for a 404
C6_Witness ==
    \E h \in Handlers :
        /\ Returned(h)
        /\ call[h].fn = "api_get"
        /\ obs[h].first = 404
        /\ result[h].error = "HTTP 404"

\* a step adds or overwrites the entry of key k
Written(k) == k \in DOMAIN CACHE' /\ (k \notin DOMAIN CACHE \/ CACHE'[k] # CACHE[k])

\* C7: every entry added or overwritten is written by a call that holds a 200
\* response to the request with that key, holds the value decoded from it, and
\* returns no error; a call that returns an error has written nothing.
C7_ErrorsNeverCached ==
    [][ /\ \A k \in DOMAIN CACHE' :
              Written(k) =>
                 \E h \in Handlers :
                    /\ pc[h] = "final" /\ pc'[h] = "returned"
                    /\ call[h].key = k
                    /\ resp[h].status = 200
                    /\ json(resp[h].body).ok
                    /\ CACHE'[k].value = json(resp[h].body).value
                    /\ result'[h].error = None
        /\ \A h \in Handlers :
              (pc'[h] = "returned" /\ Populated(result'[h].error))
                  => obs'[h].writes = 0 ]_vars

\* a call removed an expired entry, went to the network and returned an error
C7_Witness ==
    \E h \in Handlers :
        /\ Returned(h)
        /\ Populated(result[h].error)
        /\ obs[h].gets > 0
        /\ obs[h].purged

Blocked(h) == loop = h /\ pc[h] \in {"get1", "sleep", "get2"}

\* C10 as stated: while one handler is blocked in network I/O or in the
\* rate-limit sleep, any other invoked handler can still take its steps.
C10_Original ==
    \A h \in Handlers : \A g \in Handlers \ {h} :
        (Blocked(h) /\ pc[g] = "ready") => ENABLED Begin(g)

(* ---------------------------- the cache key --------------------------- *)

\* two requests of the same function with the same URL and the same set of
\* parameter name/value pairs
SameRequest(c, d) ==
    /\ c.fn = d.fn
    /\ c.path = d.path
    /\ c.params.none = d.params.none
    /\ {c.params.items[i] : i \in 1..Len(c.params.items)}
         = {d.params.items[i] : i \in 1..Len(d.params.items)}

KeyRequests ==
    {[fn |-> "api_get", path |-> p, params |-> q] : p \in KeyPaths, q \in KeyParamChoices}

\* an entry that has not expired is held under the key of request d
HeldFor(d) ==
    /\ KeyOf(d.fn, d.path, d.params) \in DOMAIN CACHE
    /\ ~Expired(now, CACHE[KeyOf(d.fn, d.path, d.params)].expiry)

\* C11 as stated: requests with the same URL and the same set of parameter
\* pairs use the same key whatever the order of the parameters, so no call
\* reaches the network while such a request's entry is held; and a call served
\* from the cache is served from an entry of its own request only.
C11_Original ==
    \A h \in Handlers :
        /\ pc[h] = "get1" =>
              ~\E d \in KeyRequests : SameRequest(call[h], d) /\ HeldFor(d)
        /\ (Returned(h) /\ obs[h].gets = 0 /\ result[h].error = None) =>
              \A d \in KeyRequests :
                  KeyOf(d.fn, d.path, d.params) = call[h].key => SameRequest(call[h], d)

(* ------------------------ the stages of the parse --------------------- *)

\* the tags of the page in document order
All == descendants(soup)
\* the heading: the first tag that passes for one
HeadingAt == First({i \in 1..Len(All) : IsHeading(All[i])})
\* the first div after the heading whose class list has a 'table' token
AnchoredDiv ==
    IF HeadingAt = 0 THEN 0
    ELSE First({i \in (HeadingAt + 1)..Len(All) : IsGridDiv(All[i])})
\* the first table after the heading
AnchoredTable ==
    IF HeadingAt = 0 THEN 0
    ELSE First({i \in (HeadingAt + 1)..Len(All) : All[i].name = "table"})
\* the Grid Parser has a result for the div after the heading
AnchoredGridParses == AnchoredDiv # 0 /\ ~parse_div_grid(All[AnchoredDiv]).none
\* some row label of a result holds one of the four keywords
LabelHasKeyword(parsed) ==
    \E n \in 1..Len(parsed.rows) : \E k \in RowKeywords : In(k, lower(parsed.rows[n].key))
Finished == frame.pc = "done"

\* C12: when the page has a 'quick stats' heading followed by a div with a
\* 'table' class token on which the Grid Parser has a result, the call returns
\* exactly that result, with or without keyword rows and whatever tables and
\* grids the page holds elsewhere.
C12_AnchoredGridWins ==
    (Finished /\ AnchoredGridParses) => frame.ret = parse_div_grid(All[AnchoredDiv])

\* the anchored grid has no keyword row and was returned although the page
\* also holds a table with keyword rows
C12_Witness ==
    /\ Finished
    /\ AnchoredGridParses
    /\ frame.ret = parse_div_grid(All[AnchoredDiv])
    /\ ~LabelHasKeyword(frame.ret)
    /\ \E i \in 1..Len(All) :
          All[i].name = "table" /\ LabelHasKeyword(parse_table(All[i]))

\* Stage A is over
PastStageA == frame.pc \in {"two", "three", "done"}

\* C13: when there is a heading but no result of an anchored grid, Stage A
\* returns the parse of the first table after the heading if and only if one
\* of its row labels holds a keyword; otherwise Stage A returns nothing and the
\* call goes on to Stage B and Stage C.
C13_AnchoredTable ==
    (PastStageA /\ HeadingAt # 0 /\ ~AnchoredGridParses) =>
        IF AnchoredTable # 0 /\ LabelHasKeyword(parse_table(All[AnchoredTable]))
        THEN /\ Finished
             /\ frame.by = "table"
             /\ frame.ret = parse_table(All[AnchoredTable])
        ELSE \/ frame.pc \in {"two", "three"}
             \/ Finished /\ frame.by \in {"divs", "tables"}

\* a div follows the heading, the Grid Parser has nothing for it, and the
\* table after the heading was returned by Stage A
C13_Witness ==
    /\ Finished
    /\ AnchoredDiv # 0
    /\ ~AnchoredGridParses
    /\ frame.by = "table"
    /\ frame.ret = parse_table(All[AnchoredTable])

\* the divs with a 'table' class token for which the Grid Parser has a result
ParsingDivs == {i \in 1..Len(All) : IsGridDiv(All[i]) /\ ~parse_div_grid(All[i]).none}
KeywordDivs == {i \in ParsingDivs : LabelHasKeyword(parse_div_grid(All[i]))}
PastStageB == frame.pc = "three" \/ (Finished /\ frame.by \in {"divs", "tables"})

\* C14: when Stage A returned nothing, Stage B returns the result of the first
\* div, in document order, whose rows hold a keyword; without such a div, the
\* result of the first div that parses; and Stage C is reached only when no
\* div parses.
C14_StageB ==
    PastStageB =>
        IF KeywordDivs # {}
        THEN /\ Finished
             /\ frame.by = "divs"
             /\ frame.ret = parse_div_grid(All[First(KeywordDivs)])
        ELSE IF ParsingDivs # {}
        THEN /\ Finished
             /\ frame.by = "divs"
             /\ frame.ret = parse_div_grid(All[First(ParsingDivs)])
        ELSE frame.pc = "three" \/ frame.by = "tables"

\* Stage B passed over a grid without keyword rows for a later one with
C14_Witness ==
    /\ Finished
    /\ frame.by = "divs"
    /\ KeywordDivs # {}
    /\ First(ParsingDivs) < First(KeywordDivs)
    /\ frame.ret = parse_div_grid(All[First(KeywordDivs)])

\* the tables of the page in document order, and the place of a table there
PageTables == find_all(soup, {"table"})
PlaceOf(t) == First({i \in 1..Len(PageTables) : PageTables[i] = t})
KeywordCandidates ==
    {n \in 1..Len(frame.table_candidates) :
        LabelHasKeyword(parse_table(frame.table_candidates[n]))}

\* C15: at the end of Stage C the candidate list holds every table of the
\* page, none twice, those whose joined header text matches before the others
\* and each group in document order; the result is the parse of the first
\* candidate with a keyword row, and without one the parse of the first
\* candidate.
C15_StageC ==
    (Finished /\ frame.by = "tables") =>
        LET cands == frame.table_candidates
        IN /\ \A i \in 1..Len(PageTables) : \E n \in 1..Len(cands) : cands[n] = PageTables[i]
           /\ \A n \in 1..Len(cands) : PlaceOf(cands[n]) # 0
           /\ \A m, n \in 1..Len(cands) : m # n => cands[m] # cands[n]
           /\ \A m, n \in 1..Len(cands) :
                 m < n => \/ HeaderMatches(cands[m]) /\ ~HeaderMatches(cands[n])
                          \/ /\ HeaderMatches(cands[m]) = HeaderMatches(cands[n])
                             /\ PlaceOf(cands[m]) < PlaceOf(cands[n])
           /\ frame.ret = IF KeywordCandidates # {}
                          THEN parse_table(cands[First(KeywordCandidates)])
                          ELSE IF cands # <<>> THEN parse_table(cands[1])
                          ELSE Absent

\* a table with matching headers was moved ahead of an earlier table and,
\* no candidate having a keyword row, its parse was returned
C15_Witness ==
    /\ Finished
    /\ frame.by = "tables"
    /\ Len(frame.table_candidates) >= 2
    /\ HeaderMatches(frame.table_candidates[1])
    /\ PlaceOf(frame.table_candidates[1]) > 1
    /\ KeywordCandidates = {}
    /\ frame.ret = parse_table(frame.table_candidates[1])

\* C16 as stated: the Table Parser returns absent when no row of the table
\* has two cells, so a result that parse_quick_stats_from_soup returns, from
\* whatever stage, has at least one row.
C16_Original ==
    (Finished /\ ~frame.ret.none) => frame.ret.rows # <<>>

(* --------------------------- the two parsers -------------------------- *)

TableParsed == elem.name = "table" /\ out.pc \in {"parsed", "embed"}
\* the texts of the th cells of the table, and of the cells of its rows
HeaderTexts ==
    LET ths == find_all(elem, {"th"})
    IN [i \in 1..Len(ths) |-> get_text(ths[i], <<>>)]
RowTexts ==
    LET trs == find_all(elem, {"tr"})
    IN [i \in 1..Len(trs) |->
          LET cells == find_all(trs[i], {"td", "th"})
          IN [n \in 1..Len(cells) |-> get_text(cells[n], <<" ">>)]]
\* the rows with at least two cells
FullRows == {i \in 1..Len(RowTexts) : Len(RowTexts[i]) >= 2}
\* the first header is blank or holds 'best', 'rank' or 'label'
Placeholder(h) ==
    h = <<>> \/ \E x \in {best, rank, label} : In(x, lower(h))
\* the values a result holds for a label
RowOf(parsed, l) ==
    parsed.rows[CHOOSE n \in 1..Len(parsed.rows) : parsed.rows[n].key = l].value
HasRow(parsed, l) == \E n \in 1..Len(parsed.rows) : parsed.rows[n].key = l
ExampleTable ==
    TableOf(<<Tr(<<Th(<<>>), Th(<<"A", "u", "t", "o">>), Th(<<"T", "e", "l", "e", "o", "p">>)>>),
              Tr(<<Td(<<"B", "e", "s", "t", " ", "O", "P", "R">>), Td(<<"1", "0">>), Td(<<"2", "0">>)>>)>>)

\* C17: with two or more header cells of which the first is blank or holds
\* 'best', 'rank' or 'label', categories is the headers without the first;
\* with other headers, categories is all of them; every row of two or more
\* cells sets rows[first cell] to its remaining cells (the last such row of a
\* label is the one that stays), and no other row is made; headers
\* ['', 'Auto', 'Teleop'] with row ['Best OPR', '10', '20'] give categories
\* ['Auto', 'Teleop'] and rows['Best OPR'] = ['10', '20'].
C17_TableParser ==
    TableParsed =>
        LET parsed == out.parsed
        IN /\ (Len(HeaderTexts) >= 2 /\ Placeholder(HeaderTexts[1]))
                 => parsed.categories = Tail(HeaderTexts)
           /\ (HeaderTexts # <<>> /\ ~(Len(HeaderTexts) >= 2 /\ Placeholder(HeaderTexts[1])))
                 => parsed.categories = HeaderTexts
           /\ \A i \in FullRows :
                 /\ HasRow(parsed, RowTexts[i][1])
                 /\ (\A j \in FullRows : j > i => RowTexts[j][1] # RowTexts[i][1])
                       => RowOf(parsed, RowTexts[i][1]) = Tail(RowTexts[i])
           /\ \A n \in 1..Len(parsed.rows) :
                 \E i \in FullRows : RowTexts[i][1] = parsed.rows[n].key
           /\ elem = ExampleTable =>
                 /\ parsed.categories = <<<<"A", "u", "t", "o">>, <<"T", "e", "l", "e", "o", "p">>>>
                 /\ RowOf(parsed, <<"B", "e", "s", "t", " ", "O", "P", "R">>) = <<<<"1", "0">>, <<"2", "0">>>>

\* the claim's own example has been parsed
C17_Witness ==
    /\ TableParsed
    /\ elem = ExampleTable
    /\ out.parsed.categories = <<<<"A", "u", "t", "o">>, <<"T", "e", "l", "e", "o", "p">>>>
    /\ RowOf(out.parsed, <<"B", "e", "s", "t", " ", "O", "P", "R">>) = <<<<"1", "0">>, <<"2", "0">>>>

GridParsed == elem.name = "div" /\ out.pc \in {"parsed", "embed"}
Kids == GridChildren(elem)
LabelKids == {i \in 1..Len(Kids) : HasToken(Kids[i], row_label)}
\* where the run of the label child i ends: the next label child, or the end
RunEnd(i) ==
    IF \E j \in LabelKids : j > i
    THEN CHOOSE j \in LabelKids : j > i /\ \A m \in LabelKids : m > i => j <= m
    ELSE Len(Kids) + 1
\* the texts of the 'val' children of that run, in order
RunVals(i) ==
    LET run == SelectSeq(SubSeq(Kids, i + 1, RunEnd(i) - 1),
                         LAMBDA c : HasToken(c, val))
    IN [n \in 1..Len(run) |-> get_text(run[n], <<" ">>)]
KidText(i) == get_text(Kids[i], <<" ">>)

\* C18: each child with a 'row-label' token opens a row keyed by its text,
\* whose values are the texts of the 'val' children that follow, in order, up
\* to the next 'row-label' child or the end (the last row of a label is the
\* one that stays); a child with neither token, or before the first label, is
\* in no row, and no child is in two.
C18_RowScan ==
    (GridParsed /\ LabelKids # {}) =>
        LET parsed == out.parsed
        IN /\ ~parsed.none
           /\ \A i \in LabelKids :
                 /\ HasRow(parsed, KidText(i))
                 /\ (\A j \in LabelKids : j > i => KidText(j) # KidText(i))
                       => RowOf(parsed, KidText(i)) = RunVals(i)
           /\ \A n \in 1..Len(parsed.rows) :
                 \E i \in LabelKids : KidText(i) = parsed.rows[n].key

\* two rows, and between the first label and its value a child without any
\* of the tokens
C18_Witness ==
    /\ GridParsed
    /\ Len(out.parsed.rows) = 2
    /\ \E i \in LabelKids, j \in 1..Len(Kids) :
          /\ i < j /\ j < RunEnd(i)
          /\ ~HasToken(Kids[j], val)
          /\ RunVals(i) # <<>>
          /\ RunEnd(i) <= Len(Kids)

(* ------------------------------ the embed ----------------------------- *)

Embedded == out.pc = "embed"
\* the first row whose label holds one of the words, 0 when there is none
RowWith(words) ==
    LET rows == out.parsed.rows
        hits == {n \in 1..Len(rows) : \E x \in words : In(x, lower(rows[n].key))}
    IN IF hits = {} THEN 0 ELSE CHOOSE n \in hits : \A m \in hits : n <= m
BestRow == RowWith({best, opr})
RankRow == RowWith({rank, percentile})
\* the row has a value at position i
HasAt(row, i) == row # 0 /\ i <= Len(out.parsed.rows[row].value)
At(row, i) == out.parsed.rows[row].value[i]
\* the fields made for categories, by position
FieldsAt(i) == {n \in 1..Len(out.fields) : out.fields[n].at = i}

\* C19 as stated: a record is emitted for the category at position i if and
\* only if the best row or the rank row has a value at position i.
C19_Original ==
    Embedded =>
        \A i \in 1..Len(out.parsed.categories) :
            (FieldsAt(i) # {}) <=> (HasAt(BestRow, i) \/ HasAt(RankRow, i))

\* the lines a record carries: the values that are not empty
LinesAt(i) ==
    (IF HasAt(BestRow, i) /\ At(BestRow, i) # <<>>
     THEN <<BestPrefix \o At(BestRow, i)>> ELSE <<>>)
    \o (IF HasAt(RankRow, i) /\ At(RankRow, i) # <<>>
        THEN <<RankPrefix \o At(RankRow, i)>> ELSE <<>>)

\* C19: the best row is the first whose label holds 'best' or 'opr', the rank
\* row the first whose label holds 'rank' or 'percentile'; a record is emitted
\* for the category at position i if and only if one of the two rows has a
\* value at i that is not the empty text; it bears the category's name and
\* those values, and the records come in category order; a short row makes no
\* error.
C19_Projector ==
    Embedded =>
        /\ \A i \in 1..Len(out.parsed.categories) :
              IF LinesAt(i) = <<>> THEN FieldsAt(i) = {}
              ELSE \E n \in 1..Len(out.fields) :
                      /\ FieldsAt(i) = {n}
                      /\ out.fields[n].name = out.parsed.categories[i]
                      /\ out.fields[n].value = join(<<"\n">>, LinesAt(i))
        /\ \A m, n \in 1..Len(out.fields) :
              (m < n /\ out.fields[m].at # 0) => out.fields[m].at < out.fields[n].at

\* the best row has an empty text at one position, where no record is made,
\* and a value at another, where one is made
C19_Witness ==
    /\ Embedded
    /\ BestRow # 0
    /\ \E i, j \in 1..Len(out.parsed.categories) :
          /\ HasAt(BestRow, i) /\ At(BestRow, i) = <<>> /\ FieldsAt(i) = {}
          /\ HasAt(BestRow, j) /\ At(BestRow, j) # <<>> /\ FieldsAt(j) # {}

(* ------------------------- calls of the parse ------------------------- *)

\* a step of a call of parse_quick_stats_from_soup
ParseStep == frame' # frame
\* what outlives a call: the cache, the clock, the fetchers' state
Persistent == <<CACHE, now, TOA_KEY, loop, pc, call, resp, retries, wait, result>>

ExpiredRead(h, k) ==
    /\ pc[h] = "ready"
    /\ pc'[h] \in {"get1", "returned"}
    /\ ~KeyMissing(call[h].fn, TOA_KEY)
    /\ call[h].key = k
    /\ now > CACHE[k].expiry

\* this step is the cache_set(k) of a call of h, after its fetch of k was
\* answered by a 200 whose body is JSON
StoreAfterFetch(h, k) ==
    /\ pc[h] = "final"
    /\ pc'[h] = "returned"
    /\ call[h].key = k
    /\ obs[h].gets >= 1
    /\ resp[h].status = 200
    /\ json(resp[h].body).ok
    /\ CACHE'[k] = [expiry |-> now + call[h].ttl, value |-> json(resp[h].body).value]

InCall(h) == pc[h] \in {"get1", "sleep", "get2", "final"}
\* this step is the cache_get of a call of g
LookupStep(g) ==
    /\ pc[g] = "ready"
    /\ pc'[g] # "ready"
    /\ ~KeyMissing(call[g].fn, TOA_KEY)
\* this step is the cache_set of a call of g
StoreStep(g) == pc[g] = "final" /\ pc'[g] = "returned" /\ Stores(resp[g])

\* C22: while a call of one handler is between its cache lookup and its
\* return, no other handler looks up or stores, and CACHE changes only in
\* that call's own store; and a cache_get that finds an entry returns the
\* whole value that entry holds, never None and never a part of it.
C22_Serialized ==
    [][/\ \A h \in Handlers : InCall(h) =>
             /\ \A g \in Handlers \ {h} : ~LookupStep(g) /\ ~StoreStep(g)
             /\ CACHE' # CACHE => StoreStep(h)
       /\ \A g \in Handlers :
             (LookupStep(g) /\ pc'[g] = "returned") =>
                 /\ call[g].key \in DOMAIN CACHE
                 /\ result'[g] = [data |-> CACHE[call[g].key].value, error |-> None]
                 /\ result'[g].data # None]_vars

\* a handler is served from the cache the value an earlier call stored, while
\* the command of another handler is pending
C22_Witness ==
    \E h, g \in Handlers :
        /\ h # g
        /\ pc[h] = "ready"
        /\ pc[g] = "returned"
        /\ obs[g].reads = 1
        /\ obs[g].gets = 0
        /\ call[g].key \in DOMAIN CACHE
        /\ result[g].data = CACHE[call[g].key].value

(* ----------------------- the replies of the team handler -------------- *)

\* the invocation of the team handler is over, by a return or by an
\* exception, and its api_get had returned data without an error
TeamOver == team.pc \in {"ended", "raised"} /\ result[Caller].error = None
\* the page came with a 200 and the parse of it returned a result
Extracted == team.html = "200" /\ ~team.caught /\ ~frame.ret.none

\* C23 as stated: an invocation of the team command whose api_get succeeded
\* sends exactly one reply, the embed when the page came with a 200 and the
\* extraction gave a table, the plain text otherwise.
C23_Original ==
    TeamOver =>
        /\ Len(team.replies) = 1
        /\ team.replies[1].kind = IF Extracted THEN "embed" ELSE "text"

(* ------------------------ the fetch of the team page ------------------ *)

\* this step is the SESSION.get of the team page, however it ends
PageFetch == team.pc = "fetch" /\ team'.pc # "fetch"

\* C24: every fetch of the team page is one more SESSION.get, whatever was
\* fetched before and whatever the answer, and it makes no cache_get and
\* leaves CACHE as it was: no entry read, added or removed.
C24_NotCached ==
    [][PageFetch =>
          /\ team'.gets = team.gets + 1
          /\ team'.html # "none"
          /\ CACHE' = CACHE
          /\ obs' = obs]_vars

\* an invocation whose api_get was served from the cache still fetched the
\* team page from the network, and the cache holds the API entry alone
C24_Witness ==
    /\ team.pc = "ended"
    /\ team.html = "200"
    /\ team.gets = 1
    /\ obs[Caller].reads = 1
    /\ obs[Caller].gets = 0
    /\ DOMAIN CACHE = {call[Caller].key}

(* ----------------------- the categories of a grid --------------------- *)

\* the children with a 'header' token, and the texts the headers are taken
\* from: those of the tagged children, or of the first ten children
TaggedKids == SelectSeq([i \in 1..Len(Kids) |-> i], LAMBDA i : HasToken(Kids[i], header))
GuessedKids == [i \in 1..(IF Len(Kids) < 10 THEN Len(Kids) ELSE 10) |-> i]
GridHeaderTexts ==
    IF TaggedKids # <<>> THEN [n \in 1..Len(TaggedKids) |-> KidText(TaggedKids[n])]
    ELSE [n \in 1..Len(GuessedKids) |-> KidText(GuessedKids[n])]

\* C25: a result of the Grid Parser that is not None has at least one
\* category, and its categories are the header texts (all but the first when
\* there are several), the tagged ones or the guessed ones; so the
\* categories are never the synthesized 'Col N' list, a branch that needs
\* rows without any header text.
C25_HeaderCategories ==
    (GridParsed /\ ~out.parsed.none) =>
        /\ Len(out.parsed.categories) >= 1
        /\ GridHeaderTexts # <<>>
        /\ out.parsed.categories =
              IF Len(GridHeaderTexts) > 1 THEN Tail(GridHeaderTexts) ELSE GridHeaderTexts

\* a grid of one row-label child and nothing tagged as a header: its rows
\* have no value, and its one category is the guessed header text
C25_Witness ==
    /\ GridParsed
    /\ ~out.parsed.none
    /\ TaggedKids = <<>>
    /\ Len(Kids) = 1
    /\ out.parsed.categories = <<KidText(1)>>
    /\ out.parsed.rows = <<[key |-> KidText(1), value |-> <<>>]>>

====
